---- MODULE Spec2Model ----
(***************************************************************************)
(* Model of exchange.py: the ApiWrapper class (construction, trading and   *)
(* query methods) and the process-wide accessor get_exchange_api.          *)
(*                                                                         *)
(* Strings that the code transforms (pairs, market names) are sequences of *)
(* one-character strings, so that str.replace is modelled by what it does. *)
(* A Python call outcome is a record: [kind |-> "return", ...] or          *)
(* [kind |-> "raise", exc |-> <exception type>, text, arg].                *)
(***************************************************************************)
EXTENDS Integers, Sequences, FiniteSets, TLC

\* ------------------------------------------------------------------ bounds
NumCallers == 2
MaxCalls == 3
MaxWhitelist == 2
MaxMarkets == 2

Callers == 1..NumCallers
NoCaller == 0

\* ------------------------------------------------------------ value domains
\* canonical pairs as the configuration writes them (BTC_ETH style)
CanonPairs == { <<"A", "_", "B">>, <<"A", "_", "C">> }
\* market names as an exchange client may report them
NativeNames == { <<"A", "-", "B">>, <<"A", "-", "C">>, <<"A", "-", "D">>, <<"A", "_", "B">> }
Messages == { <<"INSUFFICIENT_FUNDS">> }

SeqsUpTo(S, n) == UNION { [1..k -> S] : k \in 0..n }

\* ------------------------------------------------------------ Python values
None == [t |-> "none"]
Str(s) == [t |-> "str", v |-> s]
IsNone(x) == x.t = "none"

Return(v) == [kind |-> "return", value |-> v]
Raise(exc, text, arg) == [kind |-> "raise", exc |-> exc, text |-> text, arg |-> arg]
NoResult == [kind |-> "none"]

\* ------------------------------------------------------------ configuration
AbsentSub == [present |-> FALSE, enabled |-> FALSE, key |-> "", secret |-> "",
              pair_whitelist |-> <<>>]
PoloniexSubs ==
    {AbsentSub} \cup
    [present : {TRUE}, enabled : BOOLEAN, key : {"pk"}, secret : {"ps"},
     pair_whitelist : { << <<"A", "_", "B">> >> }]
BittrexSubs ==
    {AbsentSub} \cup
    [present : {TRUE}, enabled : BOOLEAN, key : {"bk"}, secret : {"bs"},
     pair_whitelist : SeqsUpTo(CanonPairs, MaxWhitelist)]
Configs == [dry_run : BOOLEAN, poloniex : PoloniexSubs, bittrex : BittrexSubs]

\* config.get(name, {}).get('enabled', True): a missing sub-config counts as enabled
GetEnabledDefaultTrue(sub) == IF sub.present THEN sub.enabled ELSE TRUE

\* config.get(name, {}).get('enabled', False)
GetEnabled(sub) == IF sub.present THEN sub.enabled ELSE FALSE

\* ------------------------------------------------------------ str.replace
str_replace(s, old, new) ==
    [i \in 1..Len(s) |-> IF s[i] = old THEN new ELSE s[i]]

\* the pair handed to the client as it is
NativePairUntranslated(pair) == pair

\* pair.replace('_', '-'): canonical pair to the Bittrex market name
NativePair(pair) == str_replace(pair, "_", "-")

\* m['MarketName'].replace('-', '_'): Bittrex market name to canonical pair
CanonicalPair(name) == str_replace(name, "-", "_")

\* ------------------------------------------------------------ client envelopes
\* What a client call gives back: the exchange's answer (for Bittrex the
\* envelope {success, message, result}), or an exception of the client
\* library (raised = TRUE), which no method of ApiWrapper catches.
OrderIds == { "u1" }
Currencies == { "BTC" }
Rates == { 1 }
Amounts == { 2 }
ClientException ==
    [raised |-> TRUE, success |-> FALSE, message |-> <<"timeout">>, result |-> None]
BittrexFailures ==
    [raised : {FALSE}, success : {FALSE}, message : Messages, result : {None}]
BittrexOk(results) ==
    [raised : {FALSE}, success : {TRUE}, message : {<<>>}, result : results]
PoloniexOk(results) ==
    [raised : {FALSE}, success : {TRUE}, message : {<<>>}, result : results]

\* what the selected exchange's client may give back, for the payloads of one call
Responses(exchange, payloads) ==
    IF exchange = "BITTREX"
    THEN {ClientException} \cup BittrexFailures \cup BittrexOk(payloads)
    ELSE {ClientException} \cup PoloniexOk(payloads)

\* get_markets answers a list of {'MarketName': ...}
MarketLists == { [t |-> "list", v |-> l] : l \in SeqsUpTo(NativeNames, MaxMarkets) }
\* buy_limit / sell_limit answer {'uuid': ...}
OrderPayloads == { [t |-> "dict", uuid |-> Str(u)] : u \in OrderIds }
\* get_balance answers {'Balance': number or null}; amounts in tenths
Balances == { None, [t |-> "float", v |-> 0], [t |-> "float", v |-> 15] }
BalancePayloads == { [t |-> "dict", Balance |-> b] : b \in Balances }
TickerPayloads == { [t |-> "dict", Bid |-> 10, Ask |-> 11, Last |-> 10] }
\* Poloniex: returnBalances()[currency] and returnTicker()[pair]
PoloniexBalancePayloads == { [t |-> "dict", amount |-> b] : b \in Balances \ {None} }
PoloniexTickerPayloads == { [t |-> "dict", highestBid |-> 10, lowestAsk |-> 11, last |-> 10] }
CancelPayloads == { None }
OpenOrderEntries ==
    [OrderUuid : OrderIds, OrderType : {"LIMIT_BUY"}, Opened : {"t0"},
     PricePerUnit : Rates, Quantity : Amounts, QuantityRemaining : Amounts]
OpenOrdersPayloads == { [t |-> "list", v |-> l] : l \in SeqsUpTo(OpenOrderEntries, 1) }

\* ------------------------------------------------------------ ApiWrapper
POLONIEX == "POLONIEX"
BITTREX == "BITTREX"
Unset == "unset"

Poloniex(key, secret) == [kind |-> "Poloniex", key |-> key, secret |-> secret]
Bittrex(api_key, api_secret) == [kind |-> "Bittrex", key |-> api_key, secret |-> api_secret]
NoApi == [kind |-> "None", key |-> "", secret |-> ""]

\* a fresh object, before __init__ has assigned anything; stage, created and
\* get_markets_calls record how far __init__ got and what it did
NewObject(id) ==
    [id |-> id, dry_run |-> FALSE, exchange |-> Unset, api |-> NoApi,
     stage |-> "new", created |-> <<>>, get_markets_calls |-> 0]
NoInstance == NewObject(0)

NotImplementedCall ==
    Raise("TypeError", "'NotImplementedType' object is not callable", <<>>)

BittrexError(data) == Raise("RuntimeError", "BITTREX: {}", data.message)

\* an exception of the client library passes through the method unchanged
ClientError(data) == Raise("ClientException", "", data.message)

ApiCall(method, args) == [method |-> method, args |-> args]

\* the value a function returns when it ends without a return statement
ImplicitNone == Return(None)

\* Every method below gives [calls, result]: the calls the client receives, in
\* order, and how the method ends.  data is what the client gives back to the
\* (at most one) call the method makes.

\* buy without the dry_run branch of lines 64-65
buy_ignores_dry_run(self, pair, rate, amount, data) ==
    IF self.exchange = "POLONIEX"
    THEN [calls |-> << ApiCall("buy", <<pair, rate, amount>>) >>,
          result |-> IF data.raised THEN ClientError(data) ELSE ImplicitNone]
    ELSE [calls |-> << ApiCall("buy_limit", <<NativePair(pair), amount, rate>>) >>,
          result |-> IF data.raised THEN ClientError(data)
                     ELSE IF ~data.success THEN BittrexError(data)
                     ELSE Return(data.result.uuid)]

\* ApiWrapper.buy
buy(self, pair, rate, amount, data) ==
    IF self.dry_run
    THEN [calls |-> <<>>, result |-> ImplicitNone]
    ELSE IF self.exchange = POLONIEX
    THEN [calls |-> << ApiCall("buy", <<pair, rate, amount>>) >>,
          result |-> IF data.raised THEN ClientError(data) ELSE ImplicitNone]
    ELSE IF self.exchange = BITTREX
    THEN [calls |-> << ApiCall("buy_limit", <<NativePair(pair), amount, rate>>) >>,
          result |-> IF data.raised THEN ClientError(data)
                     ELSE IF ~data.success THEN BittrexError(data)
                     ELSE Return(data.result.uuid)]
    ELSE [calls |-> <<>>, result |-> ImplicitNone]

\* ApiWrapper.sell
sell(self, pair, rate, amount, data) ==
    IF self.dry_run
    THEN [calls |-> <<>>, result |-> ImplicitNone]
    ELSE IF self.exchange = POLONIEX
    THEN [calls |-> << ApiCall("sell", <<pair, rate, amount>>) >>,
          result |-> IF data.raised THEN ClientError(data) ELSE ImplicitNone]
    ELSE IF self.exchange = BITTREX
    THEN [calls |-> << ApiCall("sell_limit", <<NativePair(pair), amount, rate>>) >>,
          result |-> IF data.raised THEN ClientError(data)
                     ELSE IF ~data.success THEN BittrexError(data)
                     ELSE Return(data.result.uuid)]
    ELSE [calls |-> <<>>, result |-> ImplicitNone]

\* 999.9, in tenths
DryRunBalanceTenths == 9999
Float(tenths) == [t |-> "float", v |-> tenths]

\* get_balance without the dry_run branch of lines 100-101
get_balance_ignores_dry_run(self, currency, data) ==
    IF self.exchange = "POLONIEX"
    THEN [calls |-> << ApiCall("returnBalances", <<>>) >>,
          result |-> IF data.raised THEN ClientError(data)
                     ELSE Return(Float(data.result.amount.v))]
    ELSE [calls |-> << ApiCall("get_balance", <<currency>>) >>,
          result |-> IF data.raised THEN ClientError(data)
                     ELSE IF ~data.success THEN BittrexError(data)
                     ELSE IF IsNone(data.result.Balance) THEN Return(Float(0))
                     ELSE Return(Float(data.result.Balance.v))]

\* ApiWrapper.get_balance
get_balance(self, currency, data) ==
    IF self.dry_run
    THEN [calls |-> <<>>, result |-> Return(Float(DryRunBalanceTenths))]
    ELSE IF self.exchange = POLONIEX
    THEN [calls |-> << ApiCall("returnBalances", <<>>) >>,
          result |-> IF data.raised THEN ClientError(data)
                     ELSE Return(Float(data.result.amount.v))]
    ELSE IF self.exchange = BITTREX
    THEN [calls |-> << ApiCall("get_balance", <<currency>>) >>,
          result |-> IF data.raised THEN ClientError(data)
                     ELSE IF ~data.success THEN BittrexError(data)
                     ELSE IF IsNone(data.result.Balance) THEN Return(Float(0))
                     ELSE Return(Float(data.result.Balance.v))]
    ELSE [calls |-> <<>>, result |-> ImplicitNone]

Ticker(bid, ask, lst) == [t |-> "dict", bid |-> bid, ask |-> ask, last |-> lst]

\* ApiWrapper.get_ticker
get_ticker(self, pair, data) ==
    IF self.exchange = POLONIEX
    THEN [calls |-> << ApiCall("returnTicker", <<>>) >>,
          result |-> IF data.raised THEN ClientError(data)
                     ELSE Return(Ticker(data.result.highestBid, data.result.lowestAsk,
                                        data.result.last))]
    ELSE IF self.exchange = BITTREX
    THEN [calls |-> << ApiCall("get_ticker", <<NativePair(pair)>>) >>,
          result |-> IF data.raised THEN ClientError(data)
                     ELSE IF ~data.success THEN BittrexError(data)
                     ELSE Return(Ticker(data.result.Bid, data.result.Ask, data.result.Last))]
    ELSE [calls |-> <<>>, result |-> ImplicitNone]

\* ApiWrapper.cancel_order
cancel_order(self, order_id, data) ==
    IF self.dry_run
    THEN [calls |-> <<>>, result |-> ImplicitNone]
    ELSE IF self.exchange = POLONIEX
    THEN [calls |-> <<>>, result |-> NotImplementedCall]
    ELSE IF self.exchange = BITTREX
    THEN [calls |-> << ApiCall("cancel", <<order_id>>) >>,
          result |-> IF data.raised THEN ClientError(data)
                     ELSE IF ~data.success THEN BittrexError(data)
                     ELSE ImplicitNone]
    ELSE [calls |-> <<>>, result |-> ImplicitNone]

OpenOrder(entry) ==
    [id |-> entry.OrderUuid, type |-> entry.OrderType, opened |-> entry.Opened,
     rate |-> entry.PricePerUnit, amount |-> entry.Quantity,
     remaining |-> entry.QuantityRemaining]
List(l) == [t |-> "list", v |-> l]

\* ApiWrapper.get_open_orders
get_open_orders(self, pair, data) ==
    IF self.dry_run
    THEN [calls |-> <<>>, result |-> Return(List(<<>>))]
    ELSE IF self.exchange = POLONIEX
    THEN [calls |-> <<>>, result |-> NotImplementedCall]
    ELSE IF self.exchange = BITTREX
    THEN [calls |-> << ApiCall("get_open_orders", <<NativePair(pair)>>) >>,
          result |-> IF data.raised THEN ClientError(data)
                     ELSE IF ~data.success THEN BittrexError(data)
                     ELSE Return(List([i \in 1..Len(data.result.v) |->
                                          OpenOrder(data.result.v[i])]))]
    ELSE [calls |-> <<>>, result |-> ImplicitNone]

\* ApiWrapper.get_pair_detail_url
get_pair_detail_url(self, pair) ==
    IF self.exchange = POLONIEX
    THEN [calls |-> <<>>, result |-> NotImplementedCall]
    ELSE IF self.exchange = BITTREX
    THEN [calls |-> <<>>,
          result |-> Return([t |-> "url",
                             format |-> "https://bittrex.com/Market/Index?MarketName={}",
                             v |-> NativePair(pair)])]
    ELSE [calls |-> <<>>, result |-> ImplicitNone]

\* ApiWrapper.get_markets
get_markets(self, data) ==
    IF self.exchange = POLONIEX
    THEN [calls |-> <<>>, result |-> NotImplementedCall]
    ELSE IF self.exchange = BITTREX
    THEN [calls |-> << ApiCall("get_markets", <<>>) >>,
          result |-> IF data.raised THEN ClientError(data)
                     ELSE IF ~data.success THEN BittrexError(data)
                     ELSE Return(List([i \in 1..Len(data.result.v) |->
                                          CanonicalPair(data.result.v[i])]))]
    ELSE [calls |-> <<>>, result |-> ImplicitNone]

\* lines 40-45 with the two branches in the other order
select_exchange_bittrex_first(obj, config) ==
    LET use_poloniex == GetEnabled(config.poloniex)
        use_bittrex == GetEnabled(config.bittrex)
        o1 == [obj EXCEPT !.dry_run = config.dry_run]
    IN  IF use_bittrex
        THEN [self |-> [o1 EXCEPT !.exchange = BITTREX,
                                  !.api = Bittrex(config.bittrex.key, config.bittrex.secret),
                                  !.created = Append(o1.created, "Bittrex"),
                                  !.stage = "client"],
              result |-> Return(None)]
        ELSE IF use_poloniex
        THEN [self |-> [o1 EXCEPT !.exchange = POLONIEX,
                                  !.api = Poloniex(config.poloniex.key, config.poloniex.secret),
                                  !.created = Append(o1.created, "Poloniex"),
                                  !.stage = "client"],
              result |-> Return(None)]
        ELSE [self |-> [o1 EXCEPT !.api = NoApi],
              result |-> Raise("RuntimeError", "No exchange specified. Aborting!", <<>>)]

\* ApiWrapper.__init__, lines 33-48: read dry_run, select the exchange and
\* create its client.  obj is the fresh instance; the outcome is Return(None)
\* when the constructor goes on, or the exception it raises.
select_exchange(obj, config) ==
    LET use_poloniex == GetEnabled(config.poloniex)
        use_bittrex == GetEnabled(config.bittrex)
        o1 == [obj EXCEPT !.dry_run = config.dry_run]
    IN  IF use_poloniex
        THEN [self |-> [o1 EXCEPT !.exchange = POLONIEX,
                                  !.api = Poloniex(config.poloniex.key, config.poloniex.secret),
                                  !.created = Append(o1.created, "Poloniex"),
                                  !.stage = "client"],
              result |-> Return(None)]
        ELSE IF use_bittrex
        THEN [self |-> [o1 EXCEPT !.exchange = BITTREX,
                                  !.api = Bittrex(config.bittrex.key, config.bittrex.secret),
                                  !.created = Append(o1.created, "Bittrex"),
                                  !.stage = "client"],
              result |-> Return(None)]
        ELSE [self |-> [o1 EXCEPT !.api = NoApi],
              result |-> Raise("RuntimeError", "No exchange specified. Aborting!", <<>>)]

\* config[self.exchange.name.lower()]['pair_whitelist']
Whitelist(self, config) ==
    IF self.exchange = POLONIEX THEN config.poloniex.pair_whitelist
    ELSE config.bittrex.pair_whitelist

InList(x, l) == \E i \in 1..Len(l) : l[i] = x

\* ApiWrapper.__init__, lines 52-54: the loop over the whitelist
check_whitelist(whitelist, markets) ==
    LET missing == { i \in 1..Len(whitelist) : ~InList(whitelist[i], markets) }
    IN  IF missing = {}
        THEN Return(None)
        ELSE LET first == CHOOSE i \in missing : \A j \in missing : i <= j
             IN  Raise("RuntimeError", "Pair {} is not available at Poloniex",
                       whitelist[first])

\* ApiWrapper(config): __init__ run on the fresh object of identity id, with
\* data what the client gives back to the get_markets call of line 51.
\* Gives the object as __init__ leaves it, the client's market list as the
\* constructor saw it, and Return(None) or the exception raised.
ApiWrapper(id, config, data) ==
    LET s == select_exchange(NewObject(id), config)
    IN  IF s.result.kind = "raise"
        THEN [self |-> s.self, markets |-> <<>>, result |-> s.result]
        ELSE LET m == get_markets(s.self, data)
                 o2 == [s.self EXCEPT !.get_markets_calls = @ + 1]
             IN  IF m.result.kind = "raise"
                 THEN [self |-> o2, markets |-> <<>>, result |-> m.result]
                 ELSE LET markets == m.result.value.v
                          w == check_whitelist(Whitelist(o2, config), markets)
                      IN  IF w.kind = "raise"
                          THEN [self |-> [o2 EXCEPT !.stage = "markets"],
                                markets |-> markets, result |-> w]
                          ELSE [self |-> [o2 EXCEPT !.stage = "validated"],
                                markets |-> markets, result |-> Return(None)]

\* ------------------------------------------------------------ state
VARIABLES
    exchange_api,   \* the module global _exchange_api (NoInstance = None)
    lock,           \* owner of the lock @synchronized puts around get_exchange_api
    pc,             \* where each caller stands in get_exchange_api
    frame,          \* the frame of a caller inside the body: its conf, and whether it ran line 206
    result,         \* how each caller's last call ended
    ncalls,         \* calls of get_exchange_api made so far
    nextId,         \* identity of the next ApiWrapper object created
    constructed,    \* constructor runs that returned normally
    built,          \* the last direct construction ApiWrapper(config)
    wrapper,        \* an ApiWrapper instance its methods are called on
    last,           \* the last method call on wrapper
    orderCalls,     \* order-placing or cancelling calls the client received
    invoked         \* buy/sell/cancel_order calls made on wrapper

regVars == <<exchange_api, lock, pc, frame, result, ncalls, nextId, constructed>>
methVars == <<wrapper, last, orderCalls, invoked>>
vars == <<exchange_api, lock, pc, frame, result, ncalls, nextId, constructed,
          built, wrapper, last, orderCalls, invoked>>

NoConf == [dry_run |-> FALSE, poloniex |-> AbsentSub, bittrex |-> AbsentSub]
NoFrame == [conf |-> NoConf, made |-> FALSE]
NoBuilt == [done |-> FALSE]
NoCall == [op |-> "none"]

Init ==
    /\ exchange_api = NoInstance
    /\ lock = NoCaller
    /\ pc = [t \in Callers |-> "idle"]
    /\ frame = [t \in Callers |-> NoFrame]
    /\ result = [t \in Callers |-> NoResult]
    /\ ncalls = 0
    /\ nextId = 1
    /\ constructed = 0
    /\ built = NoBuilt
    /\ wrapper = NoInstance
    /\ last = NoCall
    /\ orderCalls = {}
    /\ invoked = {}

\* ------------------------------------------------------------ get_exchange_api
\* The configurations callers pass and the market lists the exchange serves
\* while callers race: every outcome of the constructor occurs among them
\* (success, no exchange, Poloniex, unavailable pair, failing get_markets).
CallerConfigs ==
    { c \in Configs : Len(c.bittrex.pair_whitelist) <= 1 }
CallerMarketLists ==
    { l \in MarketLists : Len(l.v) <= 1 }

\* a caller invokes get_exchange_api(conf) and blocks on the lock
Call(t) ==
    /\ pc[t] = "idle"
    /\ ncalls < MaxCalls
    /\ ncalls' = ncalls + 1
    /\ pc' = [pc EXCEPT ![t] = "wait"]
    /\ result' = [result EXCEPT ![t] = NoResult]
    /\ UNCHANGED <<exchange_api, lock, frame, nextId, constructed, built, methVars>>

\* get_exchange_api without @synchronized: the body is entered at once
EnterUnsynchronized(t) ==
    /\ pc[t] = "wait"
    /\ lock' = t
    /\ \E conf \in CallerConfigs : frame' = [frame EXCEPT ![t] = [NoFrame EXCEPT !.conf = conf]]
    /\ pc' = [pc EXCEPT ![t] = "check"]
    /\ UNCHANGED <<exchange_api, result, ncalls, nextId, constructed, built, methVars>>

\* @synchronized: the caller gets the lock and enters the body with its conf
Enter(t) ==
    /\ pc[t] = "wait"
    /\ lock = NoCaller
    /\ lock' = t
    /\ \E conf \in CallerConfigs : frame' = [frame EXCEPT ![t] = [NoFrame EXCEPT !.conf = conf]]
    /\ pc' = [pc EXCEPT ![t] = "check"]
    /\ UNCHANGED <<exchange_api, result, ncalls, nextId, constructed, built, methVars>>

\* line 205: if not _exchange_api
Check(t) ==
    /\ pc[t] = "check"
    /\ pc' = [pc EXCEPT ![t] = IF exchange_api.id = 0 THEN "init" ELSE "ret"]
    /\ UNCHANGED <<exchange_api, lock, frame, result, ncalls, nextId, constructed, built, methVars>>

\* line 206 with the global bound to the object before __init__ has passed:
\* a failed object stays in the slot
ConstructKeepsFailed(t) ==
    /\ pc[t] = "init"
    /\ nextId' = nextId + 1
    /\ \E data \in Responses(select_exchange(NewObject(nextId), frame[t].conf).self.exchange,
                             CallerMarketLists) :
         LET c == ApiWrapper(nextId, frame[t].conf, data)
         IN  IF c.result.kind = "raise"
             THEN /\ result' = [result EXCEPT ![t] =
                                  [kind |-> "raise", exc |-> c.result.exc,
                                   text |-> c.result.text, arg |-> c.result.arg,
                                   obj |-> c.self.id]]
                  /\ lock' = NoCaller
                  /\ pc' = [pc EXCEPT ![t] = "idle"]
                  /\ frame' = [frame EXCEPT ![t] = NoFrame]
                  /\ exchange_api' = c.self
                  /\ UNCHANGED constructed
             ELSE /\ exchange_api' = c.self
                  /\ constructed' = constructed + 1
                  /\ pc' = [pc EXCEPT ![t] = "ret"]
                  /\ frame' = [frame EXCEPT ![t].made = TRUE]
                  /\ UNCHANGED <<lock, result>>
    /\ UNCHANGED <<ncalls, built, methVars>>

\* line 206: _exchange_api = ApiWrapper(conf).  When the constructor raises,
\* the exception leaves get_exchange_api: the assignment does not happen and
\* the with-block of @synchronized releases the lock.
Construct(t) ==
    /\ pc[t] = "init"
    /\ nextId' = nextId + 1
    /\ \E data \in Responses(select_exchange(NewObject(nextId), frame[t].conf).self.exchange,
                             CallerMarketLists) :
         LET c == ApiWrapper(nextId, frame[t].conf, data)
         IN  IF c.result.kind = "raise"
             THEN /\ result' = [result EXCEPT ![t] =
                                  [kind |-> "raise", exc |-> c.result.exc,
                                   text |-> c.result.text, arg |-> c.result.arg,
                                   obj |-> c.self.id]]
                  /\ lock' = NoCaller
                  /\ pc' = [pc EXCEPT ![t] = "idle"]
                  /\ frame' = [frame EXCEPT ![t] = NoFrame]
                  /\ UNCHANGED <<exchange_api, constructed>>
             ELSE /\ exchange_api' = c.self
                  /\ constructed' = constructed + 1
                  /\ pc' = [pc EXCEPT ![t] = "ret"]
                  /\ frame' = [frame EXCEPT ![t].made = TRUE]
                  /\ UNCHANGED <<lock, result>>
    /\ UNCHANGED <<ncalls, built, methVars>>

\* line 207: return _exchange_api, and the lock is released
ReturnApi(t) ==
    /\ pc[t] = "ret"
    /\ result' = [result EXCEPT ![t] = Return(exchange_api)]
    /\ lock' = NoCaller
    /\ frame' = [frame EXCEPT ![t] = NoFrame]
    /\ pc' = [pc EXCEPT ![t] = "idle"]
    /\ UNCHANGED <<exchange_api, ncalls, nextId, constructed, built, methVars>>

Next ==
    \E t \in Callers :
        \/ Call(t)
        \/ Enter(t)
        \/ Check(t)
        \/ Construct(t)
        \/ ReturnApi(t)

Spec == Init /\ [][Next]_vars

\* C1: however many callers run get_exchange_api, one after another or
\* interleaved, and whatever configuration each passes, the constructor
\* completes at most once, a caller gets an instance only after it has
\* completed, and every caller gets that one, fully constructed instance.
C1_OneInstance ==
    /\ constructed <= 1
    /\ \A t \in Callers :
         result[t].kind = "return" =>
            /\ constructed = 1
            /\ result[t].value.id # 0
            /\ result[t].value = exchange_api
            /\ result[t].value.stage = "validated"
            /\ result[t].value.get_markets_calls = 1
    /\ \A t, u \in Callers :
         (result[t].kind = "return" /\ result[u].kind = "return")
            => result[t].value.id = result[u].value.id

\* every caller has got the instance, after MaxCalls calls in all
C1_Witness ==
    /\ ncalls = MaxCalls
    /\ \A t \in Callers : result[t].kind = "return"
    /\ constructed = 1

\* C10: a construction that fails inside get_exchange_api hands its error to
\* that caller, leaves the slot empty and the lock free; the failed object is
\* never stored or returned, and a later call constructs afresh from the
\* configuration it was given.
C10_FailedConstruction ==
    /\ \A t \in Callers :
         result[t].kind = "raise" =>
            /\ result[t].exc \in {"RuntimeError", "TypeError", "ClientException"}
            /\ pc[t] = "idle" => lock # t
            /\ exchange_api.id # result[t].obj
            /\ \A u \in Callers :
                 result[u].kind = "return" => result[u].value.id # result[t].obj
    /\ constructed = 0 => exchange_api = NoInstance
    /\ exchange_api.id # 0 => exchange_api.stage = "validated"
    /\ lock # NoCaller => pc[lock] \in {"check", "init", "ret"}
    /\ \A t \in Callers :
         /\ pc[t] = "init" => exchange_api.id = 0
         /\ (pc[t] = "ret" /\ frame[t].made) =>
               /\ exchange_api.id = nextId - 1
               /\ exchange_api.dry_run = frame[t].conf.dry_run
               /\ exchange_api.exchange = BITTREX
               /\ GetEnabled(frame[t].conf.bittrex)

\* one call failed and a later one constructed the instance and returned it
C10_Witness ==
    \E t, u \in Callers :
        /\ result[t].kind = "raise"
        /\ result[u].kind = "return"
        /\ result[u].value.id > result[t].obj
        /\ lock = NoCaller

\* ------------------------------------------------------------ the constructor
\* SpecInit constructs ApiWrapper(config) directly, for any configuration and
\* any answer of the client to get_markets.  ApiWrapper keeps no class-level
\* state, so constructions do not influence each other and one is followed.
Build ==
    /\ ~built.done
    /\ \E config \in Configs :
         \E data \in Responses(select_exchange(NewObject(nextId), config).self.exchange,
                               MarketLists) :
            LET c == ApiWrapper(nextId, config, data)
            IN  built' = [done |-> TRUE, config |-> config, data |-> data,
                          self |-> c.self, markets |-> c.markets, result |-> c.result]
    /\ UNCHANGED <<regVars, methVars>>

NextInit == Build

SpecInit == Init /\ [][NextInit]_vars

\* enabled is true in the sub-configuration, read from the configuration itself
IsOn(sub) == sub.present /\ sub.enabled

\* C3: with no exchange enabled (sub-configurations absent or enabled false)
\* the constructor raises 'No exchange specified', having created no client
\* and called get_markets not at all.
C3_NoExchange ==
    (built.done /\ ~IsOn(built.config.poloniex) /\ ~IsOn(built.config.bittrex)) =>
        /\ built.result.kind = "raise"
        /\ built.result.exc = "RuntimeError"
        /\ built.result.text = "No exchange specified. Aborting!"
        /\ built.self.api = NoApi
        /\ built.self.created = <<>>
        /\ built.self.get_markets_calls = 0
        /\ built.self.stage = "new"

\* a construction with one sub-configuration absent and the other disabled
C3_Witness ==
    /\ built.done
    /\ ~built.config.poloniex.present
    /\ built.config.bittrex.present /\ ~built.config.bittrex.enabled
    /\ built.result.kind = "raise"

\* the whitelist of the one enabled exchange
EnabledWhitelist(config) ==
    IF IsOn(config.poloniex) THEN config.poloniex.pair_whitelist
    ELSE config.bittrex.pair_whitelist

\* the pair is not in the market list the exchange's client serves
NotServed(pair, data) ==
    \A i \in 1..Len(data.result.v) :
        /\ data.result.v[i] # pair
        /\ CanonicalPair(data.result.v[i]) # pair

\* C4: with exactly one exchange enabled and a whitelist pair that is not in
\* the market list of that exchange, the constructor raises the configuration
\* error that names the first such pair of the whitelist.
C4_UnavailablePair ==
    (/\ built.done
     /\ IsOn(built.config.poloniex) # IsOn(built.config.bittrex)
     /\ ~built.data.raised /\ built.data.success
     /\ \E i \in 1..Len(EnabledWhitelist(built.config)) :
           NotServed(EnabledWhitelist(built.config)[i], built.data))
    =>
        /\ built.result.kind = "raise"
        /\ built.result.exc = "RuntimeError"
        /\ built.result.text = "Pair {} is not available at Poloniex"
        /\ \E i \in 1..Len(EnabledWhitelist(built.config)) :
              /\ built.result.arg = EnabledWhitelist(built.config)[i]
              /\ NotServed(EnabledWhitelist(built.config)[i], built.data)
              /\ \A j \in 1..(i - 1) :
                    ~NotServed(EnabledWhitelist(built.config)[j], built.data)

\* C9: Poloniex is looked at before Bittrex: the first enabled one is selected
\* and only its client is created; what the constructor returns is a wrapper
\* that has got the market list and passed the whitelist check, otherwise it
\* raises.
C9_Selection ==
    built.done =>
        /\ IsOn(built.config.poloniex) =>
              /\ built.self.exchange = POLONIEX
              /\ built.self.api = Poloniex(built.config.poloniex.key, built.config.poloniex.secret)
              /\ built.self.created = <<"Poloniex">>
        /\ (~IsOn(built.config.poloniex) /\ IsOn(built.config.bittrex)) =>
              /\ built.self.exchange = BITTREX
              /\ built.self.api = Bittrex(built.config.bittrex.key, built.config.bittrex.secret)
              /\ built.self.created = <<"Bittrex">>
        /\ built.result.kind \in {"return", "raise"}
        /\ built.result.kind = "return" <=> built.self.stage = "validated"
        /\ built.result.kind = "return" =>
              /\ built.self.get_markets_calls = 1
              /\ built.self.dry_run = built.config.dry_run
              /\ \A i \in 1..Len(EnabledWhitelist(built.config)) :
                    InList(EnabledWhitelist(built.config)[i], built.markets)

\* both exchanges are enabled and the constructor has run
C9_Witness ==
    /\ built.done
    /\ IsOn(built.config.poloniex) /\ IsOn(built.config.bittrex)
    /\ built.self.exchange = POLONIEX
    /\ built.self.created = <<"Poloniex">>

\* C5: an operation the selected exchange's integration lacks (for Poloniex,
\* get_markets as the constructor calls it) fails with an unsupported-operation
\* error that names the exchange and the operation.
C5_UnsupportedOperation ==
    (built.done /\ built.self.exchange = POLONIEX /\ built.self.get_markets_calls > 0) =>
        /\ built.result.kind = "raise"
        /\ built.result.exc \in {"UnsupportedOperationError", "NotImplementedError"}
        /\ InList("POLONIEX", built.result.arg)
        /\ InList("get_markets", built.result.arg)

\* ------------------------------------------------------------ method calls
\* The methods of ApiWrapper read only self.dry_run, self.exchange and
\* self.api.  SpecMethods applies them, in any order and with any arguments
\* and client answers, to an instance holding any of the attribute values
\* that __init__ (lines 33-45) assigns.  Whether lines 51-54 then let the
\* constructor return such an instance is what SpecInit follows: in this
\* version they never do for POLONIEX, whose branches in the methods are
\* covered here all the same.
Wrappers ==
    { select_exchange(NewObject(1), c).self :
        c \in { c \in Configs : GetEnabled(c.poloniex) \/ GetEnabled(c.bittrex) } }

InitMethods ==
    /\ exchange_api = NoInstance
    /\ lock = NoCaller
    /\ pc = [t \in Callers |-> "idle"]
    /\ frame = [t \in Callers |-> NoFrame]
    /\ result = [t \in Callers |-> NoResult]
    /\ ncalls = 0
    /\ nextId = 2
    /\ constructed = 0
    /\ built = NoBuilt
    /\ wrapper \in Wrappers
    /\ last = NoCall
    /\ orderCalls = {}
    /\ invoked = {}

OrderMethods == {"buy", "sell", "buy_limit", "sell_limit", "cancel"}
MutatingOps == {"buy", "sell", "cancel_order"}

\* one method call on wrapper: r is what the method did
Invoke(op, args, data, r) ==
    /\ last' = [op |-> op, args |-> args, data |-> data,
                calls |-> r.calls, result |-> r.result]
    /\ orderCalls' = orderCalls \cup
          { r.calls[i].method : i \in { j \in 1..Len(r.calls) : r.calls[j].method \in OrderMethods } }
    /\ invoked' = invoked \cup ({op} \cap MutatingOps)
    /\ UNCHANGED <<wrapper, built, regVars>>

\* the Bittrex envelope says the request failed
ReportsFailure(data) == ~data.raised /\ ~data.success
ReportsSuccess(data) == ~data.raised /\ data.success

Buy ==
    \E pair \in CanonPairs, rate \in Rates, amount \in Amounts,
       data \in Responses(wrapper.exchange, OrderPayloads) :
        Invoke("buy", <<pair, rate, amount>>, data, buy(wrapper, pair, rate, amount, data))

Sell ==
    \E pair \in CanonPairs, rate \in Rates, amount \in Amounts,
       data \in Responses(wrapper.exchange, OrderPayloads) :
        Invoke("sell", <<pair, rate, amount>>, data, sell(wrapper, pair, rate, amount, data))

GetBalance ==
    \E currency \in Currencies,
       data \in Responses(wrapper.exchange,
                          IF wrapper.exchange = BITTREX THEN BalancePayloads
                          ELSE PoloniexBalancePayloads) :
        Invoke("get_balance", <<currency>>, data, get_balance(wrapper, currency, data))

GetTicker ==
    \E pair \in CanonPairs,
       data \in Responses(wrapper.exchange,
                          IF wrapper.exchange = BITTREX THEN TickerPayloads
                          ELSE PoloniexTickerPayloads) :
        Invoke("get_ticker", <<pair>>, data, get_ticker(wrapper, pair, data))

CancelOrder ==
    \E order_id \in OrderIds, data \in Responses(wrapper.exchange, CancelPayloads) :
        Invoke("cancel_order", <<order_id>>, data, cancel_order(wrapper, order_id, data))

GetOpenOrders ==
    \E pair \in CanonPairs, data \in Responses(wrapper.exchange, OpenOrdersPayloads) :
        Invoke("get_open_orders", <<pair>>, data, get_open_orders(wrapper, pair, data))

GetPairDetailUrl ==
    \E pair \in CanonPairs :
        Invoke("get_pair_detail_url", <<pair>>, ClientException,
               get_pair_detail_url(wrapper, pair))

GetMarkets ==
    \E data \in Responses(wrapper.exchange, MarketLists) :
        Invoke("get_markets", <<>>, data, get_markets(wrapper, data))

NextMethods ==
    \/ Buy
    \/ Sell
    \/ GetBalance
    \/ GetTicker
    \/ CancelOrder
    \/ GetOpenOrders
    \/ GetPairDetailUrl
    \/ GetMarkets

SpecMethods == InitMethods /\ [][NextMethods]_vars

\* C2: on a wrapper with dry_run set, whatever the exchange, no buy, sell or
\* cancel_order call, in any number and order, makes the client receive an
\* order-placing or cancelling call.
C2_DryRunNoOrders ==
    wrapper.dry_run =>
        /\ orderCalls = {}
        /\ last.op \in MutatingOps => last.calls = <<>>

\* buy, sell and cancel_order have all been called on a dry-run wrapper
C2_Witness ==
    /\ wrapper.dry_run
    /\ invoked = MutatingOps
    /\ last.op = "buy"

C7_DryRunQueries ==
    wrapper.dry_run =>
        /\ last.op = "get_balance" =>
              /\ last.result = [kind |-> "return", value |-> [t |-> "float", v |-> 9999]]
              /\ last.calls = <<>>
        /\ last.op = "get_open_orders" =>
              /\ last.result.kind = "return"
              /\ last.result.value.t = "list"
              /\ last.result.value.v = <<>>
              /\ last.calls = <<>>

\* get_balance on a dry-run wrapper whose client would have failed
C7_Witness ==
    /\ wrapper.dry_run
    /\ last.op = "get_balance"
    /\ last.data.raised
    /\ last.result.kind = "return"

\* C8 as stated: every market name of the list get_markets received is got
\* back from the canonical pair get_markets returned for it, and every
\* canonical pair returned is got back from its market name.
C8_RoundTrip ==
    (last.op = "get_markets" /\ last.result.kind = "return") =>
        \A i \in 1..Len(last.data.result.v) :
            /\ NativePair(last.result.value.v[i]) = last.data.result.v[i]
            /\ CanonicalPair(NativePair(last.result.value.v[i])) = last.result.value.v[i]

\* C8 amended: the market name is got back when it holds no '_'; every
\* canonical pair get_markets returns is got back from its market name.
C8_RoundTripNoUnderscore ==
    (last.op = "get_markets" /\ last.result.kind = "return") =>
        \A i \in 1..Len(last.data.result.v) :
            /\ ~InList("_", last.data.result.v[i]) =>
                  NativePair(last.result.value.v[i]) = last.data.result.v[i]
            /\ CanonicalPair(NativePair(last.result.value.v[i])) = last.result.value.v[i]
            /\ ~InList("-", last.result.value.v[i])

\* get_markets has returned the pairs of two market names
C8_Witness ==
    /\ last.op = "get_markets"
    /\ last.result.kind = "return"
    /\ Len(last.result.value.v) = 2
    /\ last.data.result.v[1] # last.data.result.v[2]
    /\ InList("-", last.data.result.v[1])
====
